---- MODULE Spec2Model ----
(***************************************************************************)
(* Model of the citation-to-annotation pipeline of contextify              *)
(* (src/funcs.py, src/main.py).                                            *)
(*                                                                         *)
(* Strings that the code slices (the reference text given to chunk) are    *)
(* sequences of characters.  A Python dict is a function on its key set;   *)
(* where the code iterates a dict, the insertion order of its keys is      *)
(* kept beside it.  A function that raises is modelled by the result Raise.*)
(* Entries of the location and context lists carry a ghost field src, the  *)
(* <<page, position>> of the annotation they were read from.               *)
(***************************************************************************)
EXTENDS Integers, Sequences, FiniteSets, TLC

VARIABLES
  call,        \* the function call under study (pure-function specifications)
  ret,         \* its result, Pending before the call is made
  pc,          \* main: the statement the run is at
  args,        \* main: pdf (the document at pdf_path), bing_key, groq_key
  environ,     \* os.environ: BING_API_KEY and GROQ_API_KEY
  citeMap,     \* main: cites, the citation map
  embeds,      \* download_and_retrieve: cite -> embeddings of its chunks
  texts,       \* download_and_retrieve: cite -> chunks
  ctxMap,      \* main: ctx, the context map
  locMap,      \* main: locs, the location map
  sums,        \* n_generate_summaries: summaries
  cursor,      \* the loop positions: ci (cite), pi (page), oi (occurrence)
  exc,         \* the exception caught at main's except clause
  annotated,   \* the file annotated.pdf
  reported,    \* the callbacks main has made, in order
  log,         \* ghost: the processing steps performed, in order
  failed       \* ghost: the cites whose retrieval raised

fnVars == <<call, ret>>
runVars == <<pc, args, environ, citeMap, embeds, texts, ctxMap, locMap, sums,
             cursor, exc, annotated, reported, log, failed>>
vars == <<call, ret, pc, args, environ, citeMap, embeds, texts, ctxMap, locMap,
          sums, cursor, exc, annotated, reported, log, failed>>

\* The result of a call: not made yet, returned val, or raised
Pending == [st |-> "pending", val |-> <<>>]
Raise == [st |-> "raise", val |-> <<>>]
Ok(v) == [st |-> "ok", val |-> v]
NoneVal == "None"

\* ------------------------------------------------------------------ bounds
MaxTextLen == 4
MaxSize == 3

\* ----------------------------------------------------------- Python helpers
Min(a, b) == IF a < b THEN a ELSE b

\* s[i:j] of Python for 0 <= i, 0 <= j
Slice(s, i, j) == SubSeq(s, i + 1, Min(j, Len(s)))

\* s[i:] of Python for 0 <= i
SliceFrom(s, i) == SubSeq(s, i + 1, Len(s))

RECURSIVE Concat(_)
Concat(ss) == IF ss = <<>> THEN <<>> ELSE Head(ss) \o Concat(Tail(ss))

SeqsUpTo(S, n) == UNION {[1..k -> S] : k \in 0..n}

\* No run of main: the state of the run variables in the specifications of
\* single functions
NoRun ==
  /\ pc = "none"
  /\ args = <<>> /\ environ = <<>> /\ citeMap = <<>> /\ embeds = <<>>
  /\ texts = <<>> /\ ctxMap = <<>> /\ locMap = <<>> /\ sums = <<>>
  /\ cursor = <<>> /\ exc = "" /\ annotated = <<>> /\ reported = <<>>
  /\ log = <<>> /\ failed = {}

\* ------------------------------------------------------------------- chunk
\* funcs.py 157-160: the while loop, from position i with the chunks so far;
\* returns <<chunks, i>> at loop exit
RECURSIVE chunk_loop(_, _, _, _)
chunk_loop(text, gap, i, chunks) ==
  IF i + gap <= Len(text)
  THEN chunk_loop(text, gap, i + gap, Append(chunks, Slice(text, i, i + gap)))
  ELSE <<chunks, i>>

\* funcs.py 154-163
chunk(text, size, overlap) ==
  LET gap == size - overlap
      l == chunk_loop(text, gap, 0, <<>>)
      chunks == l[1]
      i == l[2]
  IN IF i + gap > Len(text) THEN Append(chunks, SliceFrom(text, i)) ELSE chunks

Chars == {"a", "b"}

ChunkCalls ==
  {[fn |-> "chunk", text |-> t, size |-> s, overlap |-> o] :
     t \in SeqsUpTo(Chars, MaxTextLen), s \in 1..MaxSize, o \in 0..(MaxSize - 1)}

InitChunk ==
  /\ NoRun
  /\ call \in {c \in ChunkCalls : c.overlap < c.size}
  /\ ret = Pending

CallChunk ==
  /\ call.fn = "chunk"
  /\ ret.st = "pending"
  /\ ret' = Ok(chunk(call.text, call.size, call.overlap))
  /\ UNCHANGED <<call, runVars>>

NextChunk == CallChunk

SpecChunk == InitChunk /\ [][NextChunk]_vars

\* The text rebuilt from a chunk list: the first chunk, then every later chunk
\* without its leading `overlap` characters.
RECURSIVE DropOverlap(_, _)
DropOverlap(chunks, overlap) ==
  IF chunks = <<>> THEN <<>>
  ELSE <<SliceFrom(Head(chunks), Min(overlap, Len(Head(chunks))))>>
         \o DropOverlap(Tail(chunks), overlap)

Reconstruct(chunks, overlap) ==
  IF chunks = <<>> THEN <<>>
  ELSE Head(chunks) \o Concat(DropOverlap(Tail(chunks), overlap))

\* C3: once chunk(text, S, O) has returned, with 0 <= O < S, appending each
\* next chunk without its leading O characters to the chunks before it
\* rebuilds the text exactly.
ChunkingLaw ==
  (call.fn = "chunk" /\ ret.st = "ok") =>
     Reconstruct(ret.val, call.overlap) = call.text

\* C12: once chunk(text, S, O) has returned, with 0 <= O < S, every chunk of
\* the list it returned is a non-empty string.
NoEmptyChunk ==
  (call.fn = "chunk" /\ ret.st = "ok") =>
     \A k \in DOMAIN ret.val : ret.val[k] # <<>>

\* ------------------------------------------------------ the PDF document
\* A document: readable (PdfReader / pymupdf.open succeed), pages (a sequence
\* of pages, each the sequence of its /Annots; a page without /Annots is the
\* empty sequence) and dests (the named-destination table, in its order).
\* An annotation object: subtype (/Subtype), S (/A /S, NoneVal without /A),
\* D (/A /D, NoneVal without it), rect (/Rect: has is FALSE without it, box
\* is its list of numbers).
Rect(box) == [has |-> TRUE, box |-> box]
R1 == Rect(<<100, 700, 300, 715>>)
R2 == Rect(<<100, 650, 300, 665>>)
ShortRect == Rect(<<100>>)
NoRect == [has |-> FALSE, box |-> <<>>]

Link(d, r) == [subtype |-> "/Link", S |-> "/GoTo", D |-> d, rect |-> r]

AnnotKinds ==
  { Link("cite1", R1),
    Link("cite2", R2),
    Link("cite1", NoRect),
    Link("cite1", ShortRect),
    [subtype |-> "/Link", S |-> "/URI", D |-> NoneVal, rect |-> R1],
    [subtype |-> "/Text", S |-> "/GoTo", D |-> "cite1", rect |-> R1] }

\* dict[k] = v of Python
Put(f, k, v) == [x \in DOMAIN f \cup {k} |-> IF x = k THEN v ELSE f[x]]

EmptyDict == [x \in {} |-> {}]

\* The text pymupdf reads in a box of page page_num whose vertical band is
\* fixed by y (opaque; re.sub of the line breaks included)
Textbox(page_num, y) == [page |-> page_num, y |-> y]

\* funcs.py 103-112: one annotation of the locations scan
locations_annot(locs, page_num, k, obj) ==
  IF obj.subtype = "/Link" /\ obj.S = "/GoTo"
  THEN LET cite_ref == obj.D IN
       IF cite_ref \in DOMAIN locs
       THEN LET cur == IF page_num \in DOMAIN locs[cite_ref]
                       THEN locs[cite_ref][page_num] ELSE <<>>
                entry == [val |-> IF obj.rect.has THEN obj.rect.box ELSE <<>>,
                          src |-> <<page_num, k>>]
            IN [locs EXCEPT ![cite_ref] = Put(@, page_num, Append(cur, entry))]
       ELSE locs
  ELSE locs

\* The mutant of context_annot: the context scan skips an annotation that
\* has no /Rect, which the locations scan keeps
context_annot_needs_rect(cite_dict, cites, page_num, k, obj) ==
  IF obj.subtype = "/Link" /\ obj.S = "/GoTo" /\ obj.rect.has
  THEN LET cite_ref == obj.D IN
       IF cite_ref \in cites
       THEN LET info == obj.rect.box IN
            IF Len(info) < 2 THEN Raise
            ELSE LET cur == IF page_num \in DOMAIN cite_dict[cite_ref]
                            THEN cite_dict[cite_ref][page_num] ELSE <<>>
                     entry == [val |-> Textbox(page_num, info[2]),
                               src |-> <<page_num, k>>]
                 IN Ok([cite_dict EXCEPT
                          ![cite_ref] = Put(@, page_num, Append(cur, entry))])
       ELSE Ok(cite_dict)
  ELSE Ok(cite_dict)

\* funcs.py 132-146: one annotation of the context scan; Raise when info[1]
\* does not exist
context_annot(cite_dict, cites, page_num, k, obj) ==
  IF obj.subtype = "/Link" /\ obj.S = "/GoTo"
  THEN LET cite_ref == obj.D IN
       IF cite_ref \in cites
       THEN LET info == IF obj.rect.has THEN obj.rect.box ELSE <<0, 0, 0, 0>> IN
            IF Len(info) < 2 THEN Raise
            ELSE LET cur == IF page_num \in DOMAIN cite_dict[cite_ref]
                            THEN cite_dict[cite_ref][page_num] ELSE <<>>
                     entry == [val |-> Textbox(page_num, info[2]),
                               src |-> <<page_num, k>>]
                 IN Ok([cite_dict EXCEPT
                          ![cite_ref] = Put(@, page_num, Append(cur, entry))])
       ELSE Ok(cite_dict)
  ELSE Ok(cite_dict)

\* funcs.py 100-112: the two loops of the locations scan, from annotation k
\* (1-based) of page page_num (0-based)
RECURSIVE locations_scan(_, _, _, _)
locations_scan(locs, pages, page_num, k) ==
  IF page_num >= Len(pages) THEN locs
  ELSE IF k > Len(pages[page_num + 1])
  THEN locations_scan(locs, pages, page_num + 1, 1)
  ELSE locations_scan(locations_annot(locs, page_num, k, pages[page_num + 1][k]),
                      pages, page_num, k + 1)

\* funcs.py 129-146: the two loops of the context scan
RECURSIVE context_scan(_, _, _, _, _)
context_scan(cite_dict, cites, pages, page_num, k) ==
  IF page_num >= Len(pages) THEN Ok(cite_dict)
  ELSE IF k > Len(pages[page_num + 1])
  THEN context_scan(cite_dict, cites, pages, page_num + 1, 1)
  ELSE LET r == context_annot(cite_dict, cites, page_num, k,
                              pages[page_num + 1][k])
       IN IF r.st = "raise" THEN Raise
          ELSE context_scan(r.val, cites, pages, page_num, k + 1)

\* funcs.py 93-117; cites is the key set of the citation map
extract_citation_locations(doc, cites) ==
  IF ~doc.readable THEN Raise
  ELSE Ok(locations_scan([c \in cites |-> EmptyDict], doc.pages, 0, 1))

\* funcs.py 120-151
extract_citation_context(doc, cites) ==
  IF ~doc.readable THEN Raise
  ELSE context_scan([c \in cites |-> EmptyDict], cites, doc.pages, 0, 1)

\* The annotations of `flat` that pg puts on page p, in their order
RECURSIVE OnPage(_, _, _, _)
OnPage(flat, pg, p, i) ==
  IF i > Len(flat) THEN <<>>
  ELSE (IF pg[i] = p THEN <<flat[i]>> ELSE <<>>) \o OnPage(flat, pg, p, i + 1)

\* Documents of at most maxPages pages holding at most maxAnnots annotations
\* of the given kinds in all
DocsOf(kinds, maxPages, maxAnnots, dests) ==
  { [readable |-> TRUE,
     pages |-> [p \in 1..np |-> OnPage(x.flat, x.pg, p, 1)],
     dests |-> dests] :
    np \in 0..maxPages,
    x \in { y \in UNION { [flat : [1..n -> kinds], pg : [1..n -> 1..maxPages]] :
                          n \in 0..maxAnnots } :
            \A i, j \in DOMAIN y.pg : i < j => y.pg[i] <= y.pg[j] } }

MaxScanPages == 2
MaxScanAnnots == 3

ScanCalls ==
  { [fn |-> "scan", doc |-> d, cites |-> cs] :
    d \in DocsOf(AnnotKinds, MaxScanPages, MaxScanAnnots, <<>>)
           \cup {[readable |-> FALSE, pages |-> <<>>, dests |-> <<>>]},
    cs \in SUBSET {"cite1", "cite2"} }

InitScan ==
  /\ NoRun
  /\ call \in ScanCalls
  /\ ret = [locs |-> Pending, ctx |-> Pending]

CallLocations ==
  /\ call.fn = "scan"
  /\ ret.locs.st = "pending"
  /\ ret' = [ret EXCEPT !.locs = extract_citation_locations(call.doc, call.cites)]
  /\ UNCHANGED <<call, runVars>>

CallContext ==
  /\ call.fn = "scan"
  /\ ret.ctx.st = "pending"
  /\ ret' = [ret EXCEPT !.ctx = extract_citation_context(call.doc, call.cites)]
  /\ UNCHANGED <<call, runVars>>

NextScan == CallLocations \/ CallContext

SpecScan == InitScan /\ [][NextScan]_vars

Returned(r) == r.st = "ok"

scanLocs == ret.locs.val
scanCtx == ret.ctx.val

\* C1: when both scans of a document have returned, the location map and the
\* context map have the same citation keys, the same pages under each key and
\* lists of equal length for every (citation, page), and the i-th rectangle
\* and the i-th snippet were read from the same annotation.
ScansAligned ==
  (call.fn = "scan" /\ Returned(ret.locs) /\ Returned(ret.ctx)) =>
     /\ DOMAIN scanLocs = DOMAIN scanCtx
     /\ \A c \in DOMAIN scanLocs :
          /\ DOMAIN scanLocs[c] = DOMAIN scanCtx[c]
          /\ \A p \in DOMAIN scanLocs[c] :
               /\ Len(scanLocs[c][p]) = Len(scanCtx[c][p])
               /\ \A i \in 1..Len(scanLocs[c][p]) :
                    scanLocs[c][p][i].src = scanCtx[c][p][i].src

\* C1 witness: both scans returned for a document with an annotation the
\* scans skip and two occurrences of one citation on one page, one of them
\* without /Rect
ScansAlignedWitness ==
  /\ call.fn = "scan" /\ Returned(ret.locs) /\ Returned(ret.ctx)
  /\ \E c \in DOMAIN scanLocs : \E p \in DOMAIN scanLocs[c] :
       /\ Len(scanLocs[c][p]) = 2
       /\ Len(call.doc.pages[p + 1]) = 3
       /\ \E i \in 1..2 : scanLocs[c][p][i].val = <<>>

\* --------------------------------------------------------- add_annotations
\* dict.get(k, {}) of Python
Get(f, k) == IF k \in DOMAIN f THEN f[k] ELSE EmptyDict

\* The keys of a page-keyed dict in insertion order: the scans insert pages
\* in ascending page number
RECURSIVE PageOrder(_)
PageOrder(S) ==
  IF S = {} THEN <<>>
  ELSE LET m == CHOOSE x \in S : \A y \in S : x <= y
       IN <<m>> \o PageOrder(S \ {m})

\* re.sub("\n", "", text)
StripNewlines(text) == SelectSeq(text, LAMBDA ch : ch # "\n")

\* The mutant of has_summary: an off-by-one bound that drops the last summary
has_summary_off_by_one(summaries, cite, page, i) ==
  page \in DOMAIN Get(summaries, cite) /\ i + 1 < Len(summaries[cite][page])

\* funcs.py 292-294: the test that occurrence i (0-based) has a summary
has_summary(summaries, cite, page, i) ==
  page \in DOMAIN Get(summaries, cite) /\ i < Len(summaries[cite][page])

\* funcs.py 291-298: the occurrences of one (cite, page), from the i-th
RECURSIVE annotate_coords(_, _, _, _, _, _)
annotate_coords(annots, cite, page, coords, summaries, i) ==
  IF i >= Len(coords) THEN annots
  ELSE annotate_coords(
         IF has_summary(summaries, cite, page, i)
         THEN Append(annots,
                [page_number |-> page,
                 rect |-> coords[i + 1].val,
                 text |-> StripNewlines(summaries[cite][page][i + 1].val),
                 src |-> <<cite, page, i>>])
         ELSE annots,
         cite, page, coords, summaries, i + 1)

\* funcs.py 290-298: the pages of one cite, in the order pageSeq
RECURSIVE annotate_pages(_, _, _, _, _)
annotate_pages(annots, cite, pageSeq, locations, summaries) ==
  IF pageSeq = <<>> THEN annots
  ELSE annotate_pages(
         annotate_coords(annots, cite, Head(pageSeq),
                         locations[cite][Head(pageSeq)], summaries, 0),
         cite, Tail(pageSeq), locations, summaries)

\* funcs.py 289-298: the cites, in the order of the citation map
RECURSIVE annotate_cites(_, _, _, _)
annotate_cites(annots, cites, locations, summaries) ==
  IF cites = <<>> THEN annots
  ELSE annotate_cites(
         annotate_pages(annots, Head(cites),
                        PageOrder(DOMAIN Get(locations, Head(cites))),
                        locations, summaries),
         Tail(cites), locations, summaries)

\* funcs.py 275-305: the file written (the pages added to the writer and the
\* annotations added to it); cites is the key sequence of the citation map.
\* The pages of the location map are pages of the document.
add_annotations(doc, cites, locations, summaries) ==
  IF ~doc.readable THEN Raise
  ELSE Ok([pages |-> doc.pages,
           annots |-> annotate_cites(<<>>, cites, locations, summaries)])

MaxOcc == 2

CiteNames == {"cite1", "cite2"}

\* The summary a completion returns (with a line break to strip)
SummaryText == <<"s", "\n", "t">>

\* n distinct rectangles of page p, and n summaries
LocList(p, n) ==
  [i \in 1..n |-> [val |-> <<100, 700 - 10 * i, 300, 715 - 10 * i>>,
                   src |-> <<p, i>>]]
SumList(p, n) == [i \in 1..n |-> [val |-> SummaryText, src |-> <<p, i>>]]

\* The cite -> page -> list maps over the pages of a two-page document whose
\* lists have a length in lens
PageDicts(List(_, _), lens) ==
  UNION { { [p \in P |-> List(p, n[p])] : n \in [P -> lens] } :
          P \in SUBSET {0, 1} }

CiteDicts(List(_, _), lens) ==
  UNION { [K -> PageDicts(List, lens)] : K \in SUBSET CiteNames }

TwoPages == [readable |-> TRUE, pages |-> <<<<>>, <<>>>>, dests |-> <<>>]

AnnotCalls ==
  { [fn |-> "add_annotations", doc |-> TwoPages, cites |-> cs,
     locations |-> l, summaries |-> s] :
    cs \in {<<"cite1">>, <<"cite2", "cite1">>},
    l \in CiteDicts(LocList, 1..MaxOcc),
    s \in CiteDicts(SumList, 0..MaxOcc) }

InitAnnot ==
  /\ NoRun
  /\ call \in AnnotCalls
  /\ ret = Pending

CallAddAnnotations ==
  /\ call.fn = "add_annotations"
  /\ ret.st = "pending"
  /\ ret' = add_annotations(call.doc, call.cites, call.locations, call.summaries)
  /\ UNCHANGED <<call, runVars>>

NextAnnot == CallAddAnnotations

SpecAnnot == InitAnnot /\ [][NextAnnot]_vars

Range(s) == {s[i] : i \in DOMAIN s}

\* The (cite, page, i) for which add_annotations is to write an annotation:
\* cite is a key of the citation map, the location map has an i-th rectangle
\* and the summary map an i-th summary (i is 0-based)
Occurrences(cites, locations, summaries) ==
  { t \in (CiteNames \X {0, 1} \X (0..MaxOcc)) :
      /\ t[1] \in Range(cites)
      /\ t[1] \in DOMAIN locations /\ t[1] \in DOMAIN summaries
      /\ t[2] \in DOMAIN locations[t[1]] /\ t[2] \in DOMAIN summaries[t[1]]
      /\ t[3] < Len(locations[t[1]][t[2]])
      /\ t[3] < Len(summaries[t[1]][t[2]]) }

\* C4: the file add_annotations writes has the pages of the input and exactly
\* one annotation for each (cite, page, i) with an i-th rectangle and an i-th
\* summary, on that page and with that rectangle, and no other annotation.
AnnotationPlacement ==
  (call.fn = "add_annotations" /\ ret.st = "ok") =>
    LET occ == Occurrences(call.cites, call.locations, call.summaries)
        annots == ret.val.annots
    IN /\ Len(ret.val.pages) = Len(call.doc.pages)
       /\ \A t \in occ :
            \E k \in DOMAIN annots :
              /\ annots[k].src = t
              /\ annots[k].page_number = t[2]
              /\ annots[k].rect = call.locations[t[1]][t[2]][t[3] + 1].val
              /\ \A j \in DOMAIN annots : annots[j].src = t => j = k
       /\ \A k \in DOMAIN annots : annots[k].src \in occ

\* C4 witness: a file written with an annotation, for a call in which one
\* occurrence has a rectangle and no summary
AnnotationPlacementWitness ==
  /\ call.fn = "add_annotations" /\ ret.st = "ok"
  /\ Len(ret.val.annots) >= 1
  /\ \E c \in DOMAIN call.locations : \E p \in DOMAIN call.locations[c] :
       /\ c \in Range(call.cites)
       /\ p \in DOMAIN Get(call.summaries, c)
       /\ Len(call.summaries[c][p]) >= 1
       /\ Len(call.summaries[c][p]) < Len(call.locations[c][p])

\* ------------------------------------------------------- extract_citations
\* The characters of the destination names of the model
NameChars ==
  [cite1 |-> <<"c", "i", "t", "e", "1">>,
   cite2 |-> <<"c", "i", "t", "e", "2">>,
   sec1 |-> <<"s", "e", "c", "1">>,
   cit |-> <<"c", "i", "t">>]

\* str.startswith
startswith(name, prefix) ==
  /\ Len(NameChars[name]) >= Len(prefix)
  /\ SubSeq(NameChars[name], 1, Len(prefix)) = prefix

CitePrefix == <<"c", "i", "t", "e">>

\* funcs.py 44-47: the index of the page a destination points to, -1 for
\* None.  A destination's page is the index of a page of the document, or a
\* number that is no page of it.
page_index_of(pages, info) ==
  IF info.page \in 0..(Len(pages) - 1) THEN info.page ELSE -1

\* The mutant of cite_entry: an unresolved page falls back to the first page
cite_entry_first_page(cites, pages, dest) ==
  IF startswith(dest.name, CitePrefix)
  THEN IF ~dest.hasLeftTop THEN Raise
       ELSE LET page_index == page_index_of(pages, dest) IN
            Ok([keys |-> Append(cites.keys, dest.name),
                label |-> Put(cites.label, dest.name,
                              Textbox(IF page_index # -1 THEN page_index ELSE 0,
                                      dest.top))])
  ELSE Ok(cites)

\* funcs.py 41-49: one entry of the named-destination table; Raise when
\* info["/Left"] or info["/Top"] does not exist
cite_entry(cites, pages, dest) ==
  IF startswith(dest.name, CitePrefix)
  THEN IF ~dest.hasLeftTop THEN Raise
       ELSE LET page_index == page_index_of(pages, dest) IN
            IF page_index # -1
            THEN Ok([keys |-> Append(cites.keys, dest.name),
                     label |-> Put(cites.label, dest.name,
                                   Textbox(page_index, dest.top))])
            ELSE Ok(cites)
  ELSE Ok(cites)

\* funcs.py 40-49: the loop over the named-destination table
RECURSIVE cite_entries(_, _, _)
cite_entries(cites, pages, dests) ==
  IF dests = <<>> THEN Ok(cites)
  ELSE LET r == cite_entry(cites, pages, Head(dests))
       IN IF r.st = "raise" THEN Raise
          ELSE cite_entries(r.val, pages, Tail(dests))

NoCites == [keys |-> <<>>, label |-> EmptyDict]

\* funcs.py 28-53: the citation map, keys in insertion order
extract_citations(doc) ==
  IF ~doc.readable THEN Raise
  ELSE IF doc.pages = <<>> THEN Ok(NoCites)
  ELSE cite_entries(NoCites, doc.pages, doc.dests)

MaxDests == 2
MaxDestPages == 2

DestNames == {"cite1", "cite2", "sec1", "cit"}

\* Named-destination tables of at most MaxDests entries with distinct names;
\* page MaxDestPages is a page of no document
DestTables ==
  { t \in SeqsUpTo([name : DestNames, page : 0..MaxDestPages,
                    hasLeftTop : BOOLEAN, top : {200}], MaxDests) :
      \A i, j \in DOMAIN t : i # j => t[i].name # t[j].name }

CitesCalls ==
  { [fn |-> "extract_citations",
     doc |-> [readable |-> rd, pages |-> [p \in 1..np |-> <<>>], dests |-> t]] :
    rd \in BOOLEAN, np \in 0..MaxDestPages, t \in DestTables }

InitCites ==
  /\ NoRun
  /\ call \in CitesCalls
  /\ ret = Pending

CallExtractCitations ==
  /\ call.fn = "extract_citations"
  /\ ret.st = "pending"
  /\ ret' = extract_citations(call.doc)
  /\ UNCHANGED <<call, runVars>>

NextCites == CallExtractCitations

SpecCites == InitCites /\ [][NextCites]_vars

\* The citation-prefixed names of a table, and those whose page is a page of
\* the document
Prefixed(dests) ==
  { dests[i].name : i \in { j \in DOMAIN dests :
                              startswith(dests[j].name, CitePrefix) } }
Resolved(doc) ==
  { doc.dests[i].name : i \in { j \in DOMAIN doc.dests :
       /\ startswith(doc.dests[j].name, CitePrefix)
       /\ doc.dests[j].page \in 0..(Len(doc.pages) - 1) } }

\* C8 as stated: the map extract_citations returns for a document with N
\* citation-prefixed destinations has exactly those N keys.
CitationMapSize ==
  (call.fn = "extract_citations" /\ ret.st = "ok") =>
     Range(ret.val.keys) = Prefixed(call.doc.dests)

\* C8 amended: whenever extract_citations returns, the keys of its map are
\* exactly the citation-prefixed names whose target page is a page of the
\* document, each once and mapped to the text read near its destination on
\* that page; for a readable document with no citation-prefixed destination
\* it returns the empty map and does not raise.
CitationMapResolved ==
  (call.fn = "extract_citations" /\ ret.st # "pending") =>
     /\ ret.st = "ok" =>
          /\ Range(ret.val.keys) = Resolved(call.doc)
          /\ Len(ret.val.keys) = Cardinality(Resolved(call.doc))
          /\ DOMAIN ret.val.label = Resolved(call.doc)
          /\ \A i \in DOMAIN call.doc.dests :
               call.doc.dests[i].name \in Resolved(call.doc) =>
                 ret.val.label[call.doc.dests[i].name]
                   = Textbox(call.doc.dests[i].page, call.doc.dests[i].top)
     /\ (call.doc.readable /\ Prefixed(call.doc.dests) = {}) =>
          (ret.st = "ok" /\ ret.val = NoCites)

\* C8 witness: a map returned with one key for a table that holds two
\* citation-prefixed destinations, one of them with an unresolved page, and a
\* destination of another name
CitationMapResolvedWitness ==
  /\ call.fn = "extract_citations" /\ ret.st = "ok"
  /\ Len(ret.val.keys) = 1
  /\ Cardinality(Prefixed(call.doc.dests)) = 2

\* C9: when reading the PDF raises inside extract_citations, the call returns
\* the empty citation map.
ExtractionDegradesToEmpty ==
  (call.fn = "extract_citations" /\ ~call.doc.readable /\ ret.st # "pending") =>
     (ret.st = "ok" /\ ret.val = NoCites)

\* --------------------------------------------------------------------- main
CHUNK_SIZE == 400
CHUNK_OVERLAP == 50
CHUNK_N == 2

MaxRunPages == 2
MaxRunAnnots == 3

\* The values main is given for a key: none, the empty string, a key
KeyValues == {NoneVal, "", "key"}

\* The annotations of the documents a run is given
RunKinds == { Link("cite1", R1), Link("cite2", R2) }

\* Their named-destination tables: citations that point to the first page
RunDestTables ==
  { t \in SeqsUpTo([name : CiteNames, page : {0}, hasLeftTop : {TRUE},
                    top : {200}], Cardinality(CiteNames)) :
      \A i, j \in DOMAIN t : i # j => t[i].name # t[j].name }

RunDocs ==
  UNION { DocsOf(RunKinds, MaxRunPages, MaxRunAnnots, t) : t \in RunDestTables }
  \cup {[readable |-> FALSE, pages |-> <<>>, dests |-> <<>>]}

\* The text of the reference document a download gives
ReferenceText == <<"a", "b", "a">>

\* model.encode of a text (opaque)
Encode(text) == [embedding_of |-> text]

\* funcs.py 190-194: the chunks of a downloaded document
process_pdf(text) == chunk(text, CHUNK_SIZE, CHUNK_OVERLAP)

Step(name, cite, page, i) == [step |-> name, cite |-> cite, page |-> page, i |-> i]

Init ==
  /\ call = <<>> /\ ret = Pending
  /\ pc = "set_env"
  /\ args \in [pdf : RunDocs, bing_key : KeyValues, groq_key : KeyValues]
  /\ environ = [BING_API_KEY |-> NoneVal, GROQ_API_KEY |-> NoneVal]
  /\ citeMap = NoCites
  /\ embeds = EmptyDict /\ texts = EmptyDict
  /\ ctxMap = EmptyDict /\ locMap = EmptyDict /\ sums = EmptyDict
  /\ cursor = [ci |-> 1, pi |-> 1, oi |-> 1]
  /\ exc = ""
  /\ annotated = Pending
  /\ reported = <<>>
  /\ log = <<>>
  /\ failed = {}

\* main.py 18-19: os.environ[...] = key raises TypeError for a key that is None
SetEnv ==
  /\ pc = "set_env"
  /\ IF args.bing_key = NoneVal
     THEN /\ pc' = "except" /\ exc' = "str expected, not NoneType"
          /\ UNCHANGED environ
     ELSE IF args.groq_key = NoneVal
     THEN /\ pc' = "except" /\ exc' = "str expected, not NoneType"
          /\ environ' = [environ EXCEPT !.BING_API_KEY = args.bing_key]
     ELSE /\ pc' = "extract_citations" /\ UNCHANGED exc
          /\ environ' = [BING_API_KEY |-> args.bing_key,
                         GROQ_API_KEY |-> args.groq_key]
  /\ UNCHANGED <<fnVars, args, citeMap, embeds, texts, ctxMap, locMap, sums,
                 cursor, annotated, reported, log, failed>>

\* main.py 21-24
ExtractCitations ==
  /\ pc = "extract_citations"
  /\ log' = Append(log, Step("extract_citations", "", 0, 0))
  /\ LET r == extract_citations(args.pdf) IN
     IF r.st = "raise"
     THEN /\ pc' = "except" /\ exc' = "Error reading the PDF"
          /\ UNCHANGED citeMap
     ELSE IF r.val.keys = <<>>
     THEN /\ pc' = "except" /\ exc' = "No citations found in the PDF."
          /\ citeMap' = r.val
     ELSE /\ pc' = "download_and_retrieve" /\ UNCHANGED exc
          /\ citeMap' = r.val
  /\ UNCHANGED <<fnVars, args, environ, embeds, texts, ctxMap, locMap, sums,
                 cursor, annotated, reported, failed>>

\* funcs.py 200-210: the key check of download_and_retrieve
RetrieveBegin ==
  /\ pc = "download_and_retrieve"
  /\ IF environ.BING_API_KEY \in {NoneVal, ""}
     THEN /\ pc' = "except"
          /\ exc' = "BING_API_KEY not found in environment variables"
          /\ UNCHANGED <<embeds, texts, cursor>>
     ELSE /\ pc' = "retrieve" /\ UNCHANGED exc
          /\ embeds' = EmptyDict /\ texts' = EmptyDict
          /\ cursor' = [cursor EXCEPT !.ci = 1]
  /\ UNCHANGED <<fnVars, args, environ, citeMap, ctxMap, locMap, sums,
                 annotated, reported, log, failed>>

\* What the services give for one citation: the reference document, or a
\* failure of the search, the download, the text extraction or the embedding
RetrievalOutcomes == {"ok", "search", "download", "extract", "embed"}

\* The mutant of after_retrieval: the entry of the citation is stored before
\* the embedding is computed
after_retrieval_stored_early(d, cite, outcome, value) ==
  IF outcome \in {"ok", "embed"} THEN Put(d, cite, value) ELSE d

\* funcs.py 213-220: embeds (or texts) after the try block of one citation:
\* the entry is stored only when no step raised
after_retrieval(d, cite, outcome, value) ==
  IF outcome = "ok" THEN Put(d, cite, value) ELSE d

\* funcs.py 212-220: one citation of the loop of download_and_retrieve
RetrieveOne ==
  /\ pc = "retrieve"
  /\ cursor.ci <= Len(citeMap.keys)
  /\ \E outcome \in RetrievalOutcomes :
       LET cite == citeMap.keys[cursor.ci] IN
       /\ log' = Append(log, Step("retrieve", cite, 0, 0))
       /\ LET chunks == process_pdf(ReferenceText) IN
          /\ embeds' = after_retrieval(embeds, cite, outcome,
                          [k \in DOMAIN chunks |-> Encode(chunks[k])])
          /\ texts' = after_retrieval(texts, cite, outcome, chunks)
       /\ failed' = IF outcome = "ok" THEN failed ELSE failed \cup {cite}
  /\ cursor' = [cursor EXCEPT !.ci = @ + 1]
  /\ UNCHANGED <<fnVars, pc, args, environ, citeMap, ctxMap, locMap, sums, exc,
                 annotated, reported>>

\* funcs.py 222: download_and_retrieve returns
RetrieveReturn ==
  /\ pc = "retrieve"
  /\ cursor.ci > Len(citeMap.keys)
  /\ pc' = "extract_citation_context"
  /\ UNCHANGED <<fnVars, args, environ, citeMap, embeds, texts, ctxMap, locMap,
                 sums, cursor, exc, annotated, reported, log, failed>>

\* main.py 28
ExtractContext ==
  /\ pc = "extract_citation_context"
  /\ log' = Append(log, Step("extract_citation_context", "", 0, 0))
  /\ LET r == extract_citation_context(args.pdf, Range(citeMap.keys)) IN
     IF r.st = "raise"
     THEN /\ pc' = "except" /\ exc' = "Error extracting citation context"
          /\ UNCHANGED ctxMap
     ELSE /\ pc' = "extract_citation_locations" /\ UNCHANGED exc
          /\ ctxMap' = r.val
  /\ UNCHANGED <<fnVars, args, environ, citeMap, embeds, texts, locMap, sums,
                 cursor, annotated, reported, failed>>

\* main.py 30
ExtractLocations ==
  /\ pc = "extract_citation_locations"
  /\ log' = Append(log, Step("extract_citation_locations", "", 0, 0))
  /\ LET r == extract_citation_locations(args.pdf, Range(citeMap.keys)) IN
     IF r.st = "raise"
     THEN /\ pc' = "except" /\ exc' = "Error extracting citation locations"
          /\ UNCHANGED locMap
     ELSE /\ pc' = "n_generate_summaries" /\ UNCHANGED exc
          /\ locMap' = r.val
  /\ UNCHANGED <<fnVars, args, environ, citeMap, embeds, texts, ctxMap, sums,
                 cursor, annotated, reported, failed>>

\* funcs.py 230-236: the key check of n_generate_summaries
SummariesBegin ==
  /\ pc = "n_generate_summaries"
  /\ sums' = EmptyDict
  /\ IF environ.GROQ_API_KEY \in {NoneVal, ""}
     THEN pc' = "add_annotations" /\ UNCHANGED cursor
     ELSE pc' = "sum_cite" /\ cursor' = [ci |-> 1, pi |-> 1, oi |-> 1]
  /\ UNCHANGED <<fnVars, args, environ, citeMap, embeds, texts, ctxMap, locMap,
                 exc, annotated, reported, log, failed>>

\* The cite, the pages and the contexts the loops of n_generate_summaries are
\* at: ctx is built from cites, so it has the key order of the citation map
curCite == citeMap.keys[cursor.ci]

\* The mutant of curPages: the pages of the citation are visited last page
\* first
curPages_last_first ==
  LET s == PageOrder(DOMAIN ctxMap[curCite]) IN
  [k \in 1..Len(s) |-> s[Len(s) + 1 - k]]

curPages == PageOrder(DOMAIN ctxMap[curCite])
curPage == curPages[cursor.pi]
curContexts == ctxMap[curCite][curPage]

\* funcs.py 238-242: a citation without embeddings is skipped
SkipCitation ==
  /\ pc = "sum_cite"
  /\ cursor.ci <= Len(citeMap.keys)
  /\ curCite \notin DOMAIN embeds
  /\ cursor' = [cursor EXCEPT !.ci = @ + 1]
  /\ UNCHANGED <<fnVars, pc, args, environ, citeMap, embeds, texts, ctxMap,
                 locMap, sums, exc, annotated, reported, log, failed>>

\* funcs.py 238-244: a citation with embeddings gets its summary dict
EnterCitation ==
  /\ pc = "sum_cite"
  /\ cursor.ci <= Len(citeMap.keys)
  /\ curCite \in DOMAIN embeds
  /\ sums' = Put(sums, curCite, EmptyDict)
  /\ cursor' = [cursor EXCEPT !.pi = 1]
  /\ pc' = "sum_page"
  /\ UNCHANGED <<fnVars, args, environ, citeMap, embeds, texts, ctxMap, locMap,
                 exc, annotated, reported, log, failed>>

\* funcs.py 238, 272: the loop over the citations ends and the summaries are
\* returned
SummariesReturn ==
  /\ pc = "sum_cite"
  /\ cursor.ci > Len(citeMap.keys)
  /\ pc' = "add_annotations"
  /\ UNCHANGED <<fnVars, args, environ, citeMap, embeds, texts, ctxMap, locMap,
                 sums, cursor, exc, annotated, reported, log, failed>>

\* funcs.py 245-246: a page of the citation gets its summary list
EnterPage ==
  /\ pc = "sum_page"
  /\ cursor.pi <= Len(curPages)
  /\ sums' = [sums EXCEPT ![curCite] = Put(@, curPage, <<>>)]
  /\ cursor' = [cursor EXCEPT !.oi = 1]
  /\ pc' = "sum_ctx"
  /\ UNCHANGED <<fnVars, args, environ, citeMap, embeds, texts, ctxMap, locMap,
                 exc, annotated, reported, log, failed>>

\* funcs.py 245: the loop over the pages of the citation ends
LeaveCitation ==
  /\ pc = "sum_page"
  /\ cursor.pi > Len(curPages)
  /\ cursor' = [cursor EXCEPT !.ci = @ + 1]
  /\ pc' = "sum_cite"
  /\ UNCHANGED <<fnVars, args, environ, citeMap, embeds, texts, ctxMap, locMap,
                 sums, exc, annotated, reported, log, failed>>

\* What the completion service gives for one call
CompletionOutcomes == {"text", "empty", "none", "raise"}

\* funcs.py 257-264: the summary list after a completion that did not raise;
\* a summary that is empty or None is not appended
summarize_append(list, outcome, context) ==
  IF outcome = "text"
  THEN Append(list, [val |-> SummaryText, src |-> context.src])
  ELSE list

\* funcs.py 247-270: one context of the page: retrieval of the chunks (which
\* changes no state), the completion, and the append; an exception is logged
\* and raised again
SummarizeOne ==
  /\ pc = "sum_ctx"
  /\ cursor.oi <= Len(curContexts)
  /\ log' = Append(log, Step("summarize", curCite, curPage, cursor.oi - 1))
  /\ \E outcome \in CompletionOutcomes :
       IF outcome = "raise"
       THEN /\ pc' = "except" /\ exc' = "Error summarizing text"
            /\ UNCHANGED <<sums, cursor>>
       ELSE /\ sums' = [sums EXCEPT ![curCite][curPage] =
                          summarize_append(@, outcome, curContexts[cursor.oi])]
            /\ cursor' = [cursor EXCEPT !.oi = @ + 1]
            /\ UNCHANGED <<pc, exc>>
  /\ UNCHANGED <<fnVars, args, environ, citeMap, embeds, texts, ctxMap, locMap,
                 annotated, reported, failed>>

\* funcs.py 247: the loop over the contexts of the page ends
LeavePage ==
  /\ pc = "sum_ctx"
  /\ cursor.oi > Len(curContexts)
  /\ cursor' = [cursor EXCEPT !.pi = @ + 1]
  /\ pc' = "sum_page"
  /\ UNCHANGED <<fnVars, args, environ, citeMap, embeds, texts, ctxMap, locMap,
                 sums, exc, annotated, reported, log, failed>>

\* main.py 34, funcs.py 282-305: the annotated file is written, or the write
\* raises
AddAnnotations ==
  /\ pc = "add_annotations"
  /\ log' = Append(log, Step("add_annotations", "", 0, 0))
  /\ \E written \in BOOLEAN :
       LET r == add_annotations(args.pdf, citeMap.keys, locMap, sums) IN
       IF r.st = "raise" \/ ~written
       THEN /\ pc' = "except" /\ exc' = "Error adding annotations"
            /\ UNCHANGED annotated
       ELSE /\ pc' = "report" /\ UNCHANGED exc
            /\ annotated' = r
  /\ UNCHANGED <<fnVars, args, environ, citeMap, embeds, texts, ctxMap, locMap,
                 sums, cursor, reported, failed>>

\* The mutant of after_output: the raise of main.py 39 is reached after the
\* output callback too
after_output_raises == "except"

\* main.py 36-41: where main goes after output_callback returns
after_output == "done"

\* main.py 36-39: final is "annotated.pdf", the value add_annotations returns
ReportSuccess ==
  /\ pc = "report"
  /\ reported' = Append(reported, [callback |-> "output_callback",
                                   msg |-> "Annotated PDF saved as annotated.pdf"])
  /\ pc' = after_output
  /\ UNCHANGED <<fnVars, args, environ, citeMap, embeds, texts, ctxMap, locMap,
                 sums, cursor, exc, annotated, log, failed>>

\* main.py 40-41
ReportError ==
  /\ pc = "except"
  /\ reported' = Append(reported, [callback |-> "error_callback", msg |-> exc])
  /\ pc' = "done"
  /\ UNCHANGED <<fnVars, args, environ, citeMap, embeds, texts, ctxMap, locMap,
                 sums, cursor, exc, annotated, log, failed>>

Next ==
  \/ SetEnv \/ ExtractCitations
  \/ RetrieveBegin \/ RetrieveOne \/ RetrieveReturn
  \/ ExtractContext \/ ExtractLocations
  \/ SummariesBegin \/ SkipCitation \/ EnterCitation \/ SummariesReturn
  \/ EnterPage \/ LeaveCitation \/ SummarizeOne \/ LeavePage
  \/ AddAnnotations \/ ReportSuccess \/ ReportError

Spec == Init /\ [][Next]_vars

MissingKey(k) == k \in {NoneVal, ""}
Succeeded == reported = <<[callback |-> "output_callback",
                           msg |-> "Annotated PDF saved as annotated.pdf"]>>
SummariesReturned == pc \in {"add_annotations", "report"} \/ annotated.st = "ok"

\* C2: whenever n_generate_summaries has returned, every summary list has the
\* length of the context list of its (citation, page) and its i-th summary was
\* generated from the i-th context, whatever the completions returned.
SummaryIndexAlignment ==
  (pc = "add_annotations") =>
     \A c \in DOMAIN sums : \A p \in DOMAIN sums[c] :
        /\ Len(sums[c][p]) = Len(ctxMap[c][p])
        /\ \A i \in 1..Len(sums[c][p]) : sums[c][p][i].src = ctxMap[c][p][i].src

\* Exceptions that reach main from a step other than the retrieval of one
\* citation
OtherFailures ==
  { "Error extracting citation context", "Error extracting citation locations",
    "Error summarizing text", "Error adding annotations" }

\* The contexts of cite c have all been given to the completion service
Summarized(c) ==
  \A p \in DOMAIN ctxMap[c] : \A i \in 1..Len(ctxMap[c][p]) :
     \E k \in DOMAIN log : log[k] = Step("summarize", c, p, i - 1)

\* C5: a citation whose retrieval failed has no embeddings, no chunks and no
\* summaries; once download_and_retrieve has returned every other citation
\* has embeddings and chunks; once n_generate_summaries has returned with a
\* completion key every other citation has its summary dict and all its
\* contexts were summarized; and a run with a failed retrieval ends with the
\* annotated document and the success callback unless another step raised.
RetrievalFailureIsolated ==
  /\ \A c \in failed :
        c \notin DOMAIN embeds /\ c \notin DOMAIN texts /\ c \notin DOMAIN sums
  /\ (pc = "extract_citation_context") =>
        \A c \in Range(citeMap.keys) \ failed :
           c \in DOMAIN embeds /\ c \in DOMAIN texts
  /\ (pc = "add_annotations" /\ ~MissingKey(args.groq_key)) =>
        \A c \in Range(citeMap.keys) \ failed :
           c \in DOMAIN sums /\ Summarized(c)
  /\ (pc = "done" /\ failed # {}) =>
        \/ Succeeded /\ annotated.st = "ok"
        \/ exc \in OtherFailures

\* C5 witness: a finished run in which the retrieval of one citation failed
\* and the other citation got an annotation
RetrievalFailureIsolatedWitness ==
  /\ pc = "done" /\ Succeeded /\ annotated.st = "ok"
  /\ failed # {} /\ failed # Range(citeMap.keys)
  /\ \E c \in failed : c \in DOMAIN ctxMap /\ DOMAIN ctxMap[c] # {}
  /\ Len(annotated.val.annots) >= 1

\* C6: when the document-search key or the completion-service key is missing
\* or empty, no processing step is performed, no annotated file is written,
\* no success is reported, and the run ends with the error callback.
CredentialCheckFirst ==
  (MissingKey(args.bing_key) \/ MissingKey(args.groq_key)) =>
     /\ log = <<>>
     /\ annotated.st = "pending"
     /\ \A k \in DOMAIN reported : reported[k].callback = "error_callback"

RetrieveSteps == {k \in DOMAIN log : log[k].step = "retrieve"}
SummarizeSteps == {k \in DOMAIN log : log[k].step = "summarize"}
WorkSteps == RetrieveSteps \cup SummarizeSteps

\* The position of a citation in the citation map
KeyIndex(c) == CHOOSE i \in DOMAIN citeMap.keys : citeMap.keys[i] = c

\* Step j is for an earlier occurrence than step k: an earlier citation, or
\* the same citation and an earlier page, or the same page and an earlier
\* occurrence
OccurrenceBefore(j, k) ==
  \/ KeyIndex(log[j].cite) < KeyIndex(log[k].cite)
  \/ /\ log[j].cite = log[k].cite
     /\ \/ log[j].page < log[k].page
        \/ log[j].page = log[k].page /\ log[j].i < log[k].i

\* Within one citation the summarizations are in page order and, within a
\* page, in occurrence order
InDocumentOrder ==
  \A j, k \in SummarizeSteps :
     (j < k /\ log[j].cite = log[k].cite) =>
        \/ log[j].page < log[k].page
        \/ log[j].page = log[k].page /\ log[j].i < log[k].i

\* C11: the retrieval and the summarizations of one citation are not
\* interrupted by a retrieval or summarization of another citation, and
\* within one citation the occurrences are summarized in page order and,
\* within a page, in occurrence order.
PerCitationSequencing ==
  /\ \A j, k, m \in WorkSteps :
        (j < k /\ k < m /\ log[j].cite = log[m].cite) =>
           log[k].cite = log[j].cite
  /\ InDocumentOrder

\* C11 as amended: every citation is retrieved once at most, in the order of
\* the citation map, and all retrievals come before the first summarization;
\* the summarizations are in the order of the citation map, so that those of
\* one citation all come before those of the next; within one citation they
\* are in page order and, within a page, in occurrence order.
StagedSequencing ==
  /\ \A j \in RetrieveSteps : \A k \in SummarizeSteps : j < k
  /\ \A j, k \in RetrieveSteps :
        j < k => KeyIndex(log[j].cite) < KeyIndex(log[k].cite)
  /\ \A j, k \in SummarizeSteps : j < k => OccurrenceBefore(j, k)
  /\ \A k \in SummarizeSteps : log[k].cite \in DOMAIN embeds

\* C11 witness: a successful run that retrieved two citations and summarized
\* occurrences of both, one of them on two pages
StagedSequencingWitness ==
  /\ pc = "done" /\ Succeeded
  /\ Cardinality(RetrieveSteps) = 2
  /\ \E j, k, m \in SummarizeSteps :
        /\ log[j].cite = log[k].cite /\ log[j].page # log[k].page
        /\ log[m].cite # log[j].cite

====
